---- MODULE Spec2Model ----
(***************************************************************************)
(* Model of pgx-reconnect (reconnect.go): ReConn, a wrapper around one     *)
(* *pgx.Conn that reconnects with a backoff policy and re-issues a failed  *)
(* Query/Exec/Ping once.  One serialized caller drives one ReConn value.   *)
(*                                                                         *)
(* The driver (pgx, pgconn) and the retry library (cenkalti/backoff v4)    *)
(* are the environment: connect and call outcomes are chosen               *)
(* nondeterministically, backoff.Retry is modelled step by step            *)
(* (Reset, operation, NextBackOff, timer/ctx select).                      *)
(***************************************************************************)
EXTENDS Integers, Sequences, FiniteSets, TLC

(* ---------------------------- bounds ----------------------------------- *)

\* connections the driver hands out during one run
MaxConns == 2

\* largest n of a backoff.WithMaxRetries(b, n) policy the caller supplies
MaxRetries == 1

\* per-operation counters and the policy's position saturate here
CountCap == 3

(* ---------------------------- values ----------------------------------- *)

\* a nil *pgx.Conn
NilConn == 0

ConnIds == 1..MaxConns

\* errors are chains of wrapped errors; the nil error is the empty chain
Nil == <<>>

ErrNoConnString == <<"no connection string provided">>

ErrReconnect == <<"error while reconnecting">>

\* ctx.Err() of a cancelled context
CtxErr == <<"context canceled">>

\* fmt.Errorf("%w: %w, original error: %w", ErrReconnect, reconnectErr, err)
Composite(reconnectErr, err) == ErrReconnect \o reconnectErr \o err

\* errors pgx.Connect reports
ConnectErrs == {<<"connect failed">>, <<"connect timeout">>}

\* errors a delegated Query/Exec/Ping reports
OpErrs == {<<"conn closed">>, <<"timeout">>, <<"syntax error">>}

\* results a delegated call yields
Vals == {"v1", "v2"}

NoVal == "none"

Targets == {"", "db"}

\* the caller's backoff.BackOff: nil, WithMaxRetries(_, max) ("max"), or a
\* policy that stops when it likes, on elapsed time or never ("exp");
\* ctx: wrapped by backoff.WithContext(_, ctx)
NilPolicy == [kind |-> "nil", max |-> 0, ctx |-> FALSE]

Policies == {NilPolicy}
            \cup [kind : {"max"}, max : 0..MaxRetries, ctx : BOOLEAN]
            \cup [kind : {"exp"}, max : {0}, ctx : {TRUE}]

\* backoff.NewExponentialBackOff()
DefaultPolicy == [kind |-> "exp", max |-> 0, ctx |-> FALSE]

Inc(n) == IF n < CountCap THEN n + 1 ELSE n

RetryOps == {"Query", "Exec", "Ping"}

DelegatingOps == RetryOps \cup {"QueryRow"}

(* ---------------------------- state ------------------------------------ *)

VARIABLES
    inst,        \* a ReConn value exists
    ConnString,  \* c.ConnString
    Conn,        \* c.Conn: NilConn or a connection id
    Backoff,     \* c.Backoff
    boTries,     \* intervals the policy has produced since its last Reset
    status,      \* driver side: "unopened", "open" or "closed" (IsClosed) per id
    opened,      \* ids the wrapper obtained from pgx.Connect
    closeCalls,  \* per id, how often the wrapper invoked Conn.Close on it
    op,          \* the operation in progress, or the last one that returned
    pc,          \* position of the caller inside the operation
    rcFrom,      \* who called Reconnect: Connect, checkConn, retry, direct
    rcErr,       \* the error Reconnect returns
    cancelled,   \* the ctx of the operation in progress is done
    boCancelled, \* the ctx bound into the policy by backoff.WithContext is done
    ret,         \* outcome of the last operation
    cnt,         \* per-operation call counters
    first,       \* the first delegated call of the operation
    loop,        \* what happened in the backoff.Retry loop of this Reconnect
    prev         \* the operation before this one: <<"Close", its driver
                 \* closes, its error>>, or <<"other", 0, Nil>>

vars == <<inst, ConnString, Conn, Backoff, boTries, status, opened, closeCalls,
          op, pc, rcFrom, rcErr, cancelled, boCancelled, ret, cnt, first, loop, prev>>

obj == <<inst, ConnString, Backoff>>

driver == <<status, opened, closeCalls>>

\* closeErr: what the driver's close reported to Close
ZeroCnt == [reconnect |-> 0, call |-> 0, connect |-> 0, close |-> 0,
            closeErr |-> Nil]

\* re*: the re-issued call
NoFirst == [made |-> FALSE, val |-> NoVal, err |-> Nil, conn |-> NilConn,
            reconnects |-> 0, reMade |-> FALSE, reVal |-> NoVal, reErr |-> Nil]

NoLoop == [entered |-> FALSE, attempts |-> 0, delays |-> <<>>, lastErr |-> Nil,
           stop |-> FALSE, cancelSeen |-> FALSE, afterCancel |-> 0,
           retryErr |-> Nil, connBefore |-> NilConn, triesBefore |-> 0]

NoRet == [kind |-> "none", val |-> NoVal, err |-> Nil]

Returned(v, e) == [kind |-> "return", val |-> v, err |-> e]

\* a method call on a nil *pgx.Conn: nil pointer dereference inside pgx
Panicked == [kind |-> "panic", val |-> NoVal, err |-> Nil]

Init ==
    /\ inst = FALSE
    /\ ConnString = ""
    /\ Conn = NilConn
    /\ Backoff = NilPolicy
    /\ boTries = 0
    /\ status = [i \in ConnIds |-> "unopened"]
    /\ opened = {}
    /\ closeCalls = [i \in ConnIds |-> 0]
    /\ op = "none"
    /\ pc = "idle"
    /\ rcFrom = "none"
    /\ rcErr = Nil
    /\ cancelled = FALSE
    /\ boCancelled = FALSE
    /\ ret = NoRet
    /\ cnt = ZeroCnt
    /\ first = NoFirst
    /\ loop = NoLoop
    /\ prev = <<"other", 0, Nil>>

(* ---------------------------- driver ----------------------------------- *)

\* c.Conn.IsClosed()
IsClosed(h) == status[h] = "closed"

Unopened == {i \in ConnIds : status[i] = "unopened"}

\* the id the next successful pgx.Connect returns
NextId == CHOOSE i \in Unopened : \A j \in Unopened : i <= j

(* ---------------------------- classifier ------------------------------- *)

\* errors.Is(err, &pgconn.ConnectError{}): errors.Is compares the chain with
\* the freshly allocated pointer by identity (ConnectError has no Is method),
\* so no error of the driver matches
IsFreshConnectError(err) == FALSE

reconnectable(err) ==
    \/ \E i \in 1..Len(err) : err[i] = "conn closed"
    \/ \E i \in 1..Len(err) : err[i] = "timeout"
    \/ IsFreshConnectError(err)
    \/ \E i \in 1..Len(err) : err[i] = "safe to retry"

(* ---------------------------- backoff policy --------------------------- *)

\* getContext(b).Err() inside backoff.Retry: the context of a policy wrapped
\* by backoff.WithContext, context.Background() otherwise
PolicyCtxErr(b) == IF b.ctx /\ boCancelled THEN CtxErr ELSE Nil

\* mutant: the policy never signals exhaustion
NextBackOffNeverStops(b, tries) == {"wait"}

\* b.NextBackOff(): the outcomes the policy can produce at this position
NextBackOff(b, tries) ==
    IF PolicyCtxErr(b) # Nil THEN {"stop"}
    ELSE IF b.kind = "max" THEN (IF b.max <= tries THEN {"stop"} ELSE {"wait"})
    ELSE IF b.kind = "exp" THEN {"stop", "wait"}
    ELSE {"wait"}

\* the interval the policy yields at a position of its sequence
Interval(tries) == tries + 1

\* errors.As(err, &permanent) for *backoff.PermanentError
AsPermanent(err) == \E i \in 1..Len(err) : err[i] = "permanent"

\* permanent.Err: the chain below the PermanentError wrapper
PermanentErr(err) ==
    LET i == CHOOSE k \in 1..Len(err) : err[k] = "permanent"
    IN  SubSeq(err, i + 1, Len(err))

\* reconnect.go 92-99: what Reconnect makes of the error of backoff.Retry
ReconnectResult(err) ==
    IF err = Nil THEN Nil
    ELSE IF AsPermanent(err) THEN PermanentErr(err)
    ELSE Nil

(* ---------------------------- operations ------------------------------- *)

\* mutant: the empty-target test is missing
TargetEmptyNever(s) == FALSE

\* connString == "" / c.ConnString == ""
TargetEmpty(s) == s = ""

\* mutant: the test inverted, err != nil && !reconnectable(err)
ShouldRetryInverted(err) == err # Nil /\ ~reconnectable(err)

\* mutant: every error triggers the reconnect, err != nil
ShouldRetryAny(err) == err # Nil

\* err != nil && reconnectable(err)
ShouldRetry(err) == err # Nil /\ reconnectable(err)

\* entry of an exported operation: a new ctx, fresh per-operation history
Start(o) ==
    /\ pc = "idle"
    /\ op' = o
    /\ first' = NoFirst
    /\ loop' = NoLoop
    /\ cancelled' = boCancelled
    /\ rcErr' = Nil
    /\ prev' = IF op = "Close" THEN <<"Close", cnt.close, ret.err>>
                             ELSE <<"other", 0, Nil>>
    /\ UNCHANGED boCancelled

Connect(s, b) ==
    /\ ~inst
    /\ Start("Connect")
    /\ cnt' = ZeroCnt
    /\ IF TargetEmpty(s)
       THEN /\ ret' = Returned(NoVal, ErrNoConnString)
            /\ pc' = "idle"
            /\ rcFrom' = "none"
            /\ UNCHANGED <<obj, Conn, boTries, driver>>
       ELSE /\ inst' = TRUE
            /\ ConnString' = s
            /\ Backoff' = b
            /\ Conn' = NilConn
            /\ ret' = NoRet
            /\ pc' = "Reconnect"
            /\ rcFrom' = "Connect"
            /\ UNCHANGED <<boTries, driver>>

\* &ReConn{ConnString: s, Conn: conn, Backoff: b}: the fields are exported;
\* adopt: Conn holds a connection the caller opened itself
ReConnLiteral(s, adopt, b) ==
    /\ ~inst
    /\ Start("literal")
    /\ adopt => Unopened # {}
    /\ cnt' = ZeroCnt
    /\ inst' = TRUE
    /\ ConnString' = s
    /\ Backoff' = b
    /\ Conn' = IF adopt THEN NextId ELSE NilConn
    /\ status' = IF adopt THEN [status EXCEPT ![NextId] = "open"] ELSE status
    /\ ret' = Returned(NoVal, Nil)
    /\ pc' = "idle"
    /\ rcFrom' = "none"
    /\ UNCHANGED <<boTries, opened, closeCalls>>

\* entry of Query, QueryRow, Exec, Ping: the call of checkConn
Delegating(o) ==
    /\ inst
    /\ Start(o)
    /\ cnt' = ZeroCnt
    /\ ret' = NoRet
    /\ pc' = "checkConn"
    /\ rcFrom' = "none"
    /\ UNCHANGED <<obj, Conn, boTries, driver>>

Query == Delegating("Query")

QueryRow == Delegating("QueryRow")

Exec == Delegating("Exec")

Ping == Delegating("Ping")

\* mutant: only the nil test, c.Conn != nil
HealthyNilOnly(h) == h # NilConn

\* mutant: checkConn reconnects every time
HealthyNever(h) == FALSE

\* c.Conn != nil && !c.Conn.IsClosed()
Healthy(h) == h # NilConn /\ ~IsClosed(h)

checkConn ==
    /\ pc = "checkConn"
    /\ IF Healthy(Conn)
       THEN /\ pc' = "call"
            /\ UNCHANGED rcFrom
       ELSE /\ pc' = "Reconnect"
            /\ rcFrom' = "checkConn"
    /\ UNCHANGED <<obj, Conn, boTries, driver, op, rcErr, cancelled, boCancelled,
                   ret, cnt, first, loop, prev>>

\* the exported Reconnect called by the caller itself
CallReconnect ==
    /\ inst
    /\ Start("Reconnect")
    /\ cnt' = ZeroCnt
    /\ ret' = NoRet
    /\ pc' = "Reconnect"
    /\ rcFrom' = "direct"
    /\ UNCHANGED <<obj, Conn, boTries, driver>>

\* mutant: Reconnect drops the old handle without closing it
CloseOldSkipped(h) ==
    /\ cnt' = [cnt EXCEPT !.reconnect = Inc(@)]
    /\ UNCHANGED <<status, closeCalls>>

\* c.Conn.Close(ctx) on the old handle, error ignored (reconnect.go 72-77)
CloseOld(h) ==
    IF h # NilConn
    THEN /\ status' = [status EXCEPT ![h] = "closed"]
         /\ closeCalls' = [closeCalls EXCEPT ![h] = Inc(@)]
         /\ cnt' = [cnt EXCEPT !.reconnect = Inc(@), !.close = Inc(@)]
    ELSE /\ cnt' = [cnt EXCEPT !.reconnect = Inc(@)]
         /\ UNCHANGED <<status, closeCalls>>

\* Reconnect up to the first iteration of backoff.Retry (reconnect.go 71-84,
\* and the b.Reset() that opens backoff.Retry)
\* mutant: the old handle stays in c.Conn
ClearedKept(h) == h

\* c.Conn = nil
Cleared(h) == NilConn

\* mutant: the policy goes on where the last Reconnect left it
ResetMissing(tries) == tries

\* b.Reset() at the start of backoff.Retry
Reset(tries) == 0

Reconnect ==
    /\ pc = "Reconnect"
    /\ CloseOld(Conn)
    /\ Conn' = Cleared(Conn)
    /\ loop' = [NoLoop EXCEPT !.entered = ~TargetEmpty(ConnString),
                              !.connBefore = Conn, !.triesBefore = boTries]
    /\ IF TargetEmpty(ConnString)
       THEN /\ rcErr' = ErrNoConnString
            /\ pc' = "ReconnectReturn"
            /\ UNCHANGED <<Backoff, boTries>>
       ELSE /\ Backoff' = IF Backoff = NilPolicy THEN DefaultPolicy ELSE Backoff
            /\ boTries' = Reset(boTries)
            /\ rcErr' = Nil
            /\ pc' = "retry"
    /\ UNCHANGED <<inst, ConnString, opened, op, rcFrom, cancelled, boCancelled,
                   ret, first, prev>>

\* backoff.Retry returns err; Reconnect finishes with lines 92-99
RetryReturns(err, l) ==
    /\ loop' = [l EXCEPT !.retryErr = err]
    /\ rcErr' = ReconnectResult(err)
    /\ pc' = "ReconnectReturn"

AfterCancel(l) == IF l.cancelSeen THEN Inc(l.afterCancel) ELSE l.afterCancel

\* one iteration of backoff.Retry: the operation succeeds
RetryConnectOk ==
    /\ pc = "retry"
    /\ ~cancelled
    /\ Unopened # {}
    /\ Conn' = NextId
    /\ status' = [status EXCEPT ![NextId] = "open"]
    /\ opened' = opened \cup {NextId}
    /\ cnt' = [cnt EXCEPT !.connect = Inc(@)]
    /\ RetryReturns(Nil, [loop EXCEPT !.attempts = Inc(@)])
    /\ UNCHANGED <<obj, boTries, closeCalls, op, rcFrom, cancelled, boCancelled,
                   ret, first, prev>>

\* the error of a failed pgx.Connect(ctx, ...): it wraps ctx.Err() when the
\* ctx is done
ConnectErr(e) == IF cancelled THEN e \o CtxErr ELSE e

\* one iteration of backoff.Retry: the operation fails, then the
\* PermanentError test and b.NextBackOff()
RetryConnectFails(e0) ==
    /\ pc = "retry"
    /\ cnt' = [cnt EXCEPT !.connect = Inc(@)]
    /\ LET e == ConnectErr(e0)
           l == [loop EXCEPT !.attempts = Inc(@), !.lastErr = e,
                             !.afterCancel = AfterCancel(loop)]
       IN  IF AsPermanent(e)
           THEN /\ RetryReturns(PermanentErr(e), l)
                /\ UNCHANGED boTries
           ELSE \E next \in NextBackOff(Backoff, boTries) :
                  IF next = "stop"
                  THEN /\ RetryReturns(IF PolicyCtxErr(Backoff) # Nil
                                       THEN PolicyCtxErr(Backoff) ELSE e,
                                       [l EXCEPT !.stop = TRUE])
                       /\ UNCHANGED boTries
                  ELSE /\ boTries' = Inc(boTries)
                       /\ loop' = [l EXCEPT !.delays =
                                     IF Len(@) < CountCap
                                     THEN Append(@, Interval(boTries)) ELSE @]
                       /\ pc' = "sleep"
                       /\ UNCHANGED rcErr
    /\ UNCHANGED <<obj, Conn, driver, op, rcFrom, cancelled, boCancelled, ret,
                   first, prev>>

\* the select of backoff.Retry: the timer fires
RetryWake ==
    /\ pc = "sleep"
    /\ pc' = "retry"
    /\ UNCHANGED <<obj, Conn, boTries, driver, op, rcFrom, rcErr, cancelled,
                   boCancelled, ret, cnt, first, loop, prev>>

\* the select of backoff.Retry: the policy's context is done
RetryCtxDone ==
    /\ pc = "sleep"
    /\ PolicyCtxErr(Backoff) # Nil
    /\ RetryReturns(PolicyCtxErr(Backoff), loop)
    /\ UNCHANGED <<obj, Conn, boTries, driver, op, rcFrom, cancelled, boCancelled,
                   ret, cnt, first, prev>>

\* the caller of Reconnect goes on with its result
ReconnectReturn ==
    /\ pc = "ReconnectReturn"
    /\ IF rcFrom \in {"Connect", "direct"}
       THEN /\ ret' = Returned(NoVal, rcErr)
            /\ pc' = "idle"
       ELSE IF rcFrom = "checkConn"
       THEN IF rcErr # Nil
            THEN /\ ret' = Returned(NoVal, rcErr)
                 /\ pc' = "idle"
            ELSE /\ pc' = "call"
                 /\ UNCHANGED ret
       ELSE IF rcErr # Nil
            THEN /\ ret' = Returned(NoVal, Composite(rcErr, first.err))
                 /\ pc' = "idle"
            ELSE /\ pc' = "reissue"
                 /\ UNCHANGED ret
    /\ UNCHANGED <<obj, Conn, boTries, driver, op, rcFrom, rcErr, cancelled,
                   boCancelled, cnt, first, loop, prev>>

\* the outcomes of c.Conn.Query/QueryRow/Exec/Ping on handle h: <<val, err>>
CallOutcomes(o, h) ==
    LET vals == IF o = "Ping" THEN {NoVal} ELSE Vals
        ok   == {<<v, Nil>> : v \in vals}
        bad  == {<<NoVal, e>> : e \in OpErrs}
    IN  IF o = "QueryRow" THEN ok
        ELSE IF cancelled \/ IsClosed(h) THEN bad
        ELSE ok \cup bad

\* the driver may find the connection broken when a call on it fails
StatusAfter(h, err) ==
    IF err = Nil THEN {status}
    ELSE {status, [status EXCEPT ![h] = "closed"]}

\* the first delegated call and the test that follows it
FirstCall ==
    /\ pc = "call"
    /\ IF Conn = NilConn
       THEN /\ ret' = Panicked
            /\ pc' = "idle"
            /\ UNCHANGED <<status, cnt, first, rcFrom>>
       ELSE \E r \in CallOutcomes(op, Conn) :
            /\ status' \in StatusAfter(Conn, r[2])
            /\ cnt' = [cnt EXCEPT !.call = Inc(@)]
            /\ first' = [NoFirst EXCEPT !.made = TRUE, !.val = r[1], !.err = r[2],
                                        !.conn = Conn, !.reconnects = cnt.reconnect]
            /\ IF op \in RetryOps /\ ShouldRetry(r[2])
               THEN /\ pc' = "Reconnect"
                    /\ rcFrom' = "retry"
                    /\ UNCHANGED ret
               ELSE /\ ret' = Returned(r[1], r[2])
                    /\ pc' = "idle"
                    /\ UNCHANGED rcFrom
    /\ UNCHANGED <<obj, Conn, boTries, opened, closeCalls, op, rcErr, cancelled,
                   boCancelled, loop, prev>>

\* mutant: a failed re-issue reports the error of the first call
ReissueResultOriginal(v, e, orig) == Returned(v, IF e # Nil THEN orig ELSE e)

\* return c.Conn.Query(ctx, sql, args...)
ReissueResult(v, e, orig) == Returned(v, e)

\* the call re-issued after the Reconnect that followed a failure
Reissue ==
    /\ pc = "reissue"
    /\ IF Conn = NilConn
       THEN /\ ret' = Panicked
            /\ UNCHANGED <<status, cnt, first>>
       ELSE \E r \in CallOutcomes(op, Conn) :
            /\ status' \in StatusAfter(Conn, r[2])
            /\ cnt' = [cnt EXCEPT !.call = Inc(@)]
            /\ first' = [first EXCEPT !.reMade = TRUE, !.reVal = r[1],
                                      !.reErr = r[2]]
            /\ ret' = ReissueResult(r[1], r[2], first.err)
    /\ pc' = "idle"
    /\ UNCHANGED <<obj, Conn, boTries, opened, closeCalls, op, rcFrom, rcErr,
                   cancelled, boCancelled, loop, prev>>

\* errors c.Conn.Close(ctx) reports
CloseErrs == {Nil, <<"close failed">>}

\* mutant: Close neither tests IsClosed nor clears the handle
CloseNaive ==
    /\ inst
    /\ Start("Close")
    /\ IF Conn = NilConn
       THEN /\ ret' = Returned(NoVal, Nil)
            /\ cnt' = ZeroCnt
            /\ UNCHANGED <<status, closeCalls>>
       ELSE \E e \in CloseErrs :
            /\ status' = [status EXCEPT ![Conn] = "closed"]
            /\ closeCalls' = [closeCalls EXCEPT ![Conn] = Inc(@)]
            /\ cnt' = [ZeroCnt EXCEPT !.close = 1, !.closeErr = e]
            /\ ret' = Returned(NoVal, e)
    /\ pc' = "idle"
    /\ rcFrom' = "none"
    /\ UNCHANGED <<obj, Conn, boTries, opened>>

Close ==
    /\ inst
    /\ Start("Close")
    /\ IF Conn = NilConn \/ IsClosed(Conn)
       THEN /\ ret' = Returned(NoVal, Nil)
            /\ cnt' = ZeroCnt
            /\ UNCHANGED <<Conn, status, closeCalls>>
       ELSE \E e \in CloseErrs :
            /\ status' = [status EXCEPT ![Conn] = "closed"]
            /\ closeCalls' = [closeCalls EXCEPT ![Conn] = Inc(@)]
            /\ cnt' = [ZeroCnt EXCEPT !.close = 1, !.closeErr = e]
            /\ Conn' = NilConn
            /\ ret' = Returned(NoVal, e)
    /\ pc' = "idle"
    /\ rcFrom' = "none"
    /\ UNCHANGED <<obj, boTries, opened>>

\* the ctx of the operation in progress is cancelled or times out
Cancel ==
    /\ pc # "idle"
    /\ ~cancelled
    /\ cancelled' = TRUE
    /\ loop' = IF pc \in {"retry", "sleep"}
               THEN [loop EXCEPT !.cancelSeen = TRUE] ELSE loop
    /\ UNCHANGED <<obj, Conn, boTries, driver, op, pc, rcFrom, rcErr, boCancelled,
                   ret, cnt, first, prev>>

\* the context bound into the policy is cancelled; the ctx of the
\* operation in progress derives from it
CancelPolicyCtx ==
    /\ inst
    /\ Backoff.ctx
    /\ ~boCancelled
    /\ boCancelled' = TRUE
    /\ cancelled' = (pc # "idle")
    /\ loop' = IF pc \in {"retry", "sleep"}
               THEN [loop EXCEPT !.cancelSeen = TRUE] ELSE loop
    /\ UNCHANGED <<obj, Conn, boTries, driver, op, pc, rcFrom, rcErr, ret, cnt,
                   first, prev>>

Next ==
    \/ \E s \in Targets, b \in Policies : Connect(s, b)
    \/ \E s \in Targets, adopt \in BOOLEAN, b \in Policies : ReConnLiteral(s, adopt, b)
    \/ Query
    \/ QueryRow
    \/ Exec
    \/ Ping
    \/ checkConn
    \/ CallReconnect
    \/ Reconnect
    \/ RetryConnectOk
    \/ \E e \in ConnectErrs : RetryConnectFails(e)
    \/ RetryWake
    \/ RetryCtxDone
    \/ ReconnectReturn
    \/ FirstCall
    \/ Reissue
    \/ Close
    \/ Cancel
    \/ CancelPolicyCtx

Spec == Init /\ [][Next]_vars

\* the steps of the operation in progress: the caller's goroutine runs, the
\* driver answers and the timer of backoff.Retry fires
Progress ==
    \/ checkConn
    \/ Reconnect
    \/ RetryConnectOk
    \/ \E e \in ConnectErrs : RetryConnectFails(e)
    \/ RetryWake
    \/ RetryCtxDone
    \/ ReconnectReturn
    \/ FirstCall
    \/ Reissue

\* an operation that was called keeps running
FairSpec == Spec /\ WF_vars(Progress)

(* ---------------------------- claims ----------------------------------- *)

\* the operation named by op has ended (returned or panicked)
Ended == pc = "idle" /\ ret.kind # "none"

\* the first delegated call of a Query/Exec/Ping failed with a retryable error
FirstRetryable == op \in RetryOps /\ first.made /\ reconnectable(first.err)

\* Reconnect calls made after the first delegated call
ReconnectsAfterFirst == cnt.reconnect - first.reconnects

C2_NoRetry ==
    (op \in RetryOps /\ first.made /\ ~reconnectable(first.err)) =>
        /\ Ended
        /\ ReconnectsAfterFirst = 0
        /\ cnt.call = 1
        /\ Conn = first.conn
        /\ ret = Returned(first.val, first.err)

\* a first call that failed with a non-retryable error
C2_Witness ==
    /\ Ended
    /\ op \in RetryOps
    /\ first.made
    /\ first.err = <<"syntax error">>
    /\ ret.err = <<"syntax error">>

\* C3 as stated: when the first delegated call fails with a retryable error
\* and the Reconnect that follows exhausts the policy without a connection,
\* the operation returns the ErrReconnect composite of a non-nil reconnect
\* error and the original error.
C3_Original ==
    (Ended /\ FirstRetryable /\ loop.entered /\ loop.stop /\ Conn = NilConn) =>
        /\ ret.kind = "return"
        /\ rcErr # Nil
        /\ ret.err = Composite(rcErr, first.err)

\* C4 as stated: when Connect returns no error, the ReConn holds a non-nil
\* handle that is not closed.
C4_Original ==
    (Ended /\ op = "Connect" /\ ret.kind = "return" /\ ret.err = Nil) =>
        (Conn # NilConn /\ ~IsClosed(Conn))

\* C5 as stated: when Reconnect returns no error, the handle is non-nil and
\* not closed.
C5_Original ==
    (pc = "ReconnectReturn" /\ rcErr = Nil) =>
        (Conn # NilConn /\ ~IsClosed(Conn))

\* C6 as stated: when the connect attempts fail until the policy signals
\* exhaustion, Reconnect returns the last connect failure, a non-nil error.
C6_Original ==
    (pc = "ReconnectReturn" /\ loop.stop /\ ~loop.cancelSeen /\ ~boCancelled) =>
        (rcErr # Nil /\ rcErr = loop.lastErr)

\* C7 as stated: once the context is cancelled while Reconnect is in its
\* retry loop, at most the attempt of the next wake-up is made, and
\* Reconnect returns an error that reports the cancellation.
C7_Original ==
    /\ loop.cancelSeen => loop.afterCancel <= 1
    /\ (pc = "ReconnectReturn" /\ loop.cancelSeen) =>
           \E i \in 1..Len(rcErr) : rcErr[i] = CtxErr[1]

\* C8 as stated: with an empty target, Connect and Reconnect fail with
\* ErrNoConnString and make no driver connect and no driver close call,
\* whatever the handle was.
C8_Original ==
    /\ (Ended /\ op = "Connect" /\ ConnString = "") =>
           (ret = Returned(NoVal, ErrNoConnString) /\ cnt = ZeroCnt)
    /\ (pc = "ReconnectReturn" /\ ConnString = "") =>
           (rcErr = ErrNoConnString /\ cnt.connect = 0 /\ cnt.close = 0)

\* C8 amended: with an empty target, Connect and Reconnect fail with
\* ErrNoConnString and never call the driver's connect; Connect makes no
\* driver call at all and builds no ReConn; Reconnect first closes the
\* handle it holds, if any (one driver close call), and leaves it nil.
C8_EmptyTarget ==
    /\ (Ended /\ op = "Connect" /\ ConnString = "") =>
           (ret = Returned(NoVal, ErrNoConnString) /\ cnt = ZeroCnt /\ ~inst)
    /\ (pc = "ReconnectReturn" /\ ConnString = "") =>
           /\ rcErr = ErrNoConnString
           /\ cnt.connect = 0
           /\ cnt.close = (IF loop.connBefore # NilConn THEN 1 ELSE 0)
           /\ Conn = NilConn

\* Reconnect with an empty target while a handle was held
C8_Witness ==
    /\ pc = "ReconnectReturn"
    /\ ConnString = ""
    /\ loop.connBefore # NilConn
    /\ rcErr = ErrNoConnString

\* C9: when Close is called twice in a row, the second call returns no
\* error and the driver's close is invoked at most once over both calls.
C9_CloseIdempotent ==
    (Ended /\ op = "Close" /\ prev[1] = "Close") =>
        (ret = Returned(NoVal, Nil) /\ prev[2] + cnt.close <= 1)

\* a second Close after a Close whose driver close reported an error
C9_Witness ==
    /\ Ended
    /\ op = "Close"
    /\ prev[1] = "Close"
    /\ prev[2] = 1
    /\ prev[3] # Nil

\* connections the wrapper opened and has not invoked close on
OwnedOpen == {i \in opened : closeCalls[i] = 0}

\* C10: the wrapper never has more than one connection that it opened and
\* has not yet invoked close on.
C10_AtMostOne == Cardinality(OwnedOpen) <= 1

\* a second connection is owned after the first one was closed
C10_Witness ==
    /\ Cardinality(opened) >= 2
    /\ Cardinality(OwnedOpen) = 1
    /\ Conn \in OwnedOpen

\* a delegated call is about to be made on the handle
AtDelegation == pc \in {"call", "reissue"}

\* C11 as stated: after every operation the handle is nil or refers to a
\* connection that is not closed.
C11_Original == Ended => (Conn = NilConn \/ ~IsClosed(Conn))

\* C11 amended: a closed handle may stay in c.Conn after an operation
\* returns (the driver closed it during a failed call, or Close found it
\* closed and left it), but it is never used: no delegated call is made on
\* a closed handle, and the checkConn of the next operation has Reconnect
\* replace it before anything is delegated.
C11_ClosedNeverUsed ==
    /\ (AtDelegation /\ Conn # NilConn) => ~IsClosed(Conn)
    /\ (pc = "call" /\ cnt.reconnect = 0) => Conn # NilConn

\* the checkConn of an operation found a closed handle and Reconnect
\* replaced it by a new connection
C11_Witness ==
    /\ pc = "call"
    /\ rcFrom = "checkConn"
    /\ loop.connBefore # NilConn
    /\ Conn # NilConn
    /\ Conn # loop.connBefore

\* C12 as stated: once checkConn has returned no error, QueryRow makes
\* exactly one delegated call, no Reconnect after it, and returns the
\* driver's row with no error.
C12_Original ==
    (Ended /\ op = "QueryRow" /\ ret.err = Nil) =>
        /\ ret.kind = "return"
        /\ first.made
        /\ cnt.call = 1
        /\ ReconnectsAfterFirst = 0
        /\ ret = Returned(first.val, Nil)

\* Reconnect has returned after a backoff.Retry that ended with a connection
Established == pc = "ReconnectReturn" /\ loop.entered /\ loop.retryErr = Nil

\* C13: a Reconnect whose connect fails k times and then succeeds has slept
\* exactly k times, and the delays are the first k intervals of the policy
\* counted from its start, however far earlier Reconnect calls advanced it.
C13_FreshSequence ==
    (Established /\ loop.attempts < CountCap) =>
        /\ Conn # NilConn
        /\ Len(loop.delays) = loop.attempts - 1
        /\ \A i \in 1..Len(loop.delays) : loop.delays[i] = Interval(i - 1)

\* one failure, one delay, then success, on a policy that an earlier
\* Reconnect had advanced
C13_Witness ==
    /\ Established
    /\ loop.triesBefore > 0
    /\ loop.attempts = 2
    /\ Len(loop.delays) = 1

\* C14: the call re-issued after the post-failure Reconnect decides the
\* outcome: its value and error are returned as they are, the error of the
\* first call is neither returned nor wrapped.
C14_ReissueAsIs ==
    (Ended /\ FirstRetryable /\ first.reMade) =>
        ret = Returned(first.reVal, first.reErr)

\* the re-issued call failed with another error than the first call
C14_Witness ==
    /\ Ended
    /\ FirstRetryable
    /\ first.reMade
    /\ first.reErr # Nil
    /\ first.reErr # first.err
    /\ ret.err = first.reErr

\* C15: whenever Reconnect returns without a new connection (empty target,
\* policy exhausted, cancellation), the handle is nil, whatever it was
\* before; it is nil all through the retry loop as well.
C15_NilOnFailure ==
    /\ (pc = "ReconnectReturn" /\ ~Established) => Conn = NilConn
    /\ pc \in {"retry", "sleep"} => Conn = NilConn

\* Reconnect held a handle, exhausted the policy and returned
C15_Witness ==
    /\ pc = "ReconnectReturn"
    /\ loop.connBefore # NilConn
    /\ loop.stop
    /\ Conn = NilConn

\* a step of Close
CloseStep ==
    /\ pc = "idle"
    /\ pc' = "idle"
    /\ op' = "Close"
    /\ boCancelled' = boCancelled

\* C16: Close on a handle that is non-nil and not closed invokes the
\* driver's close exactly once, leaves the handle nil also when that close
\* reports an error, and returns exactly the error it reported.
C16_CloseClears ==
    [][(CloseStep /\ Conn # NilConn /\ ~IsClosed(Conn)) =>
          /\ cnt'.close = 1
          /\ closeCalls'[Conn] = closeCalls[Conn] + 1
          /\ Conn' = NilConn
          /\ ret' = Returned(NoVal, cnt'.closeErr)]_vars

\* a Close whose driver close reported an error
C16_Witness ==
    /\ Ended
    /\ op = "Close"
    /\ cnt.close = 1
    /\ cnt.closeErr # Nil
    /\ ret.err = cnt.closeErr
    /\ Conn = NilConn

\* a step of checkConn
CheckConnStep == pc = "checkConn" /\ pc' # pc

\* C17: checkConn calls Reconnect exactly when the handle is nil or closed,
\* and then once; with a healthy handle it returns no error and leaves the
\* handle, the driver and the policy alone; the checkConn of the operation
\* that follows a Close calls Reconnect exactly once.
C17_CheckConn ==
    /\ [][CheckConnStep =>
            IF Conn # NilConn /\ ~IsClosed(Conn)
            THEN /\ pc' = "call"
                 /\ UNCHANGED <<Conn, Backoff, boTries, status, opened,
                                closeCalls, cnt>>
            ELSE /\ pc' = "Reconnect"
                 /\ rcFrom' = "checkConn"]_vars
    /\ [](pc = "call" => cnt.reconnect <= 1)
    /\ []((pc = "call" /\ prev[1] = "Close") => cnt.reconnect = 1)

\* the operation after a Close reconnected once and reached its call
C17_Witness ==
    /\ pc = "call"
    /\ prev[1] = "Close"
    /\ prev[2] = 1
    /\ cnt.reconnect = 1
    /\ Conn # NilConn

\* C18: with a policy that signals exhaustion after finitely many intervals
\* every Reconnect, and so every operation, ends; connect is attempted only
\* inside the backoff.Retry loop, which makes at most one attempt more than
\* the policy has yielded intervals, so at most max + 1 attempts under
\* WithMaxRetries(_, max).
C18_Terminates ==
    /\ [](cnt.connect > 0 => loop.entered)
    /\ [](loop.attempts < CountCap => loop.attempts <= Len(loop.delays) + 1)
    /\ []((loop.entered /\ Backoff.kind = "max") =>
             /\ Len(loop.delays) <= Backoff.max
             /\ loop.attempts <= Backoff.max + 1)
    /\ (pc # "idle" /\ Backoff.kind = "max") ~> (pc = "idle")

\* a Reconnect that used up WithMaxRetries(_, 1): two attempts, one delay
C18_Witness ==
    /\ pc = "ReconnectReturn"
    /\ Backoff.kind = "max"
    /\ Backoff.max = 1
    /\ loop.stop
    /\ loop.attempts = 2
    /\ Len(loop.delays) = 1

\* C19 as stated: whenever a delegated call is reached, the handle is
\* non-nil.
C19_Original == AtDelegation => Conn # NilConn

\* C20: every connection the wrapper obtained from pgx.Connect is the
\* current handle or has had the driver's close invoked on it, and
\* Reconnect has invoked close on the handle it held before its first
\* connect attempt.
C20_NoLeak ==
    /\ \A i \in opened : i = Conn \/ closeCalls[i] >= 1
    /\ (pc \in {"retry", "sleep"} /\ loop.connBefore # NilConn) =>
           closeCalls[loop.connBefore] >= 1

\* Reconnect closed a connection of its own before its first attempt
C20_Witness ==
    /\ pc = "retry"
    /\ loop.attempts = 0
    /\ loop.connBefore \in opened
    /\ closeCalls[loop.connBefore] = 1
    /\ Conn = NilConn

====
